---- MODULE Spec2Model ----
(***************************************************************************)
(* Model of the AI analysis pipeline of github-trending:                   *)
(*   - AIAnalysis              (src/src/models/repository.py)              *)
(*   - AICache                 (src/src/ai/cache.py)                       *)
(*   - AIClient.analyze_repository and AIResultParser (src/src/ai/)        *)
(*   - _run_ai_analysis        (src/main.py)                               *)
(* The cache directory is a map from cache key to file content; time is a  *)
(* counter of clock ticks; one tick stands for one TTL unit of seconds.    *)
(***************************************************************************)
EXTENDS Integers, Sequences, FiniteSets, TLC

VARIABLES
    store,          \* cache_dir: cache key -> file content
    now,            \* time.time()
    queue,          \* repositories still to be processed by the running batch
    repos_with_ai,  \* result list of the running batch
    mode,           \* flags of the running batch, or the idle marker
    last,           \* the cache or analysis operation that ran last, with
                    \* its inputs and what its caller saw
    cc,             \* callers inside AICache.get / AICache.set at one time
    rl,             \* a RateLimiter, its clock and the callers of acquire()
    tb,             \* a TokenBucket, its clock and the caller of its methods
    pz,             \* a response text and what AIResultParser makes of it
    tp,             \* a listing page or count text and what TrendingParser
                    \* makes of it
    cl              \* an AIClient: its provider_name and installed provider

\* The variables of the limiter, the bucket, the overlapping cache callers,
\* the parsers and the client, which the batch run and the cache interface
\* leave alone.
aux == <<cc, rl, tb, pz, tp, cl>>

vars == <<store, now, queue, repos_with_ai, mode, last, aux>>

----------------------------------------------------------------------------
(* Bounds *)

MaxTime == 2
MaxBatch == 1
TtlTicks == 1

Repos == {"o/a"}
NoReadme == "<None>"
Contents == {"", "x"}
FetchResults == Contents \cup {NoReadme}

----------------------------------------------------------------------------
(* AIAnalysis: src/src/models/repository.py *)

NoTime == [type |-> "none", t |-> 0]
DateTime(t) == [type |-> "datetime", t |-> t]
FloatTime(t) == [type |-> "float", t |-> t]

\* The declared defaults of the optional fields (summary has none).
AIAnalysisDefaults ==
    [key_features |-> <<>>, tech_stack |-> <<>>, use_cases |-> <<>>,
     learning_value |-> "medium", score |-> 5, is_worthwhile |-> FALSE,
     reason |-> "", analyzed_at |-> NoTime, model_used |-> "None",
     analysis_status |-> "pending", error_message |-> "None"]

\* Validation of analyzed_at: a number is read as a timestamp.
ValidateTime(v) == IF v.type = "float" THEN DateTime(v.t) ELSE v

\* AIAnalysis(**kwargs): the value, or a ValidationError when the required
\* summary is missing or the score is outside [0, 10].
AIAnalysis(kwargs) ==
    IF "summary" \notin DOMAIN kwargs
    THEN [ok |-> FALSE, error |-> "ValidationError"]
    ELSE LET full == kwargs @@ AIAnalysisDefaults
         IN IF full.score < 0 \/ full.score > 10
            THEN [ok |-> FALSE, error |-> "ValidationError"]
            ELSE [ok |-> TRUE,
                  value |-> [full EXCEPT !.analyzed_at = ValidateTime(@)]]

\* model_dump(): the fields as they are held (assignment is not validated).
model_dump(a) == a

----------------------------------------------------------------------------
(* AICache: src/src/ai/cache.py *)

_get_content_hash(readme_content) ==
    IF readme_content = "" \/ readme_content = NoReadme
    THEN ""
    ELSE "md5:" \o readme_content

_get_cache_key(repo_name, content_hash) ==
    "sha256:" \o repo_name \o ":" \o content_hash

CacheKey(repo_name, readme_content) ==
    _get_cache_key(repo_name, _get_content_hash(readme_content))

Keys == {CacheKey(r, c) : r \in Repos, c \in Contents}

Absent == [kind |-> "absent"]
Partial == [kind |-> "partial"]
JsonFile(cached_at, content_hash, analysis) ==
    [kind |-> "json", cached_at |-> cached_at, content_hash |-> content_hash,
     analysis |-> analysis]

\* json.dump of the analysis dict: None is written as null and a float as a
\* number; a datetime is not serializable (TypeError).
JsonSerializable(d) == d.analyzed_at.type # "datetime"
JsonDumpTime(v) ==
    IF v.type = "none" THEN [type |-> "null", t |-> 0]
    ELSE [type |-> "number", t |-> v.t]
JsonDump(d) == [d EXCEPT !.analyzed_at = JsonDumpTime(@)]
\* json.load: null is None again and a number is a float.
JsonLoadTime(j) == IF j.type = "null" THEN NoTime ELSE FloatTime(j.t)
JsonLoad(j) == [j EXCEPT !.analyzed_at = JsonLoadTime(@)]

Expired(file, t) == t - file.cached_at > TtlTicks

\* get() without the age test.
CacheGet_IgnoresTtl(st, repo_name, readme_content, t, io) ==
    LET file == st[CacheKey(repo_name, readme_content)]
    IN IF file.kind # "json" \/ io = "read_error" THEN [hit |-> FALSE]
       ELSE LET a == AIAnalysis(JsonLoad(file.analysis))
            IN IF a.ok THEN [hit |-> TRUE, value |-> a.value]
               ELSE [hit |-> FALSE]

\* get(): io = "read_error" stands for open()/json.load failing.
CacheGet(st, repo_name, readme_content, t, io) ==
    LET file == st[CacheKey(repo_name, readme_content)]
    IN IF file.kind = "absent" THEN [hit |-> FALSE]
       ELSE IF io = "read_error" \/ file.kind = "partial" THEN [hit |-> FALSE]
       ELSE IF Expired(file, t) THEN [hit |-> FALSE]
       ELSE LET a == AIAnalysis(JsonLoad(file.analysis))
            IN IF a.ok THEN [hit |-> TRUE, value |-> a.value]
               ELSE [hit |-> FALSE]

\* set(): the file is opened for writing (truncated) and the dict is dumped
\* piecewise; an error after the open leaves a partial file.
CacheSetStore(st, repo_name, readme_content, analysis, t, io) ==
    LET key == CacheKey(repo_name, readme_content)
        data == model_dump(analysis)
    IN IF io = "open_error" THEN st
       ELSE IF io = "write_error" \/ ~JsonSerializable(data)
            THEN [st EXCEPT ![key] = Partial]
       ELSE [st EXCEPT ![key] =
                JsonFile(t, _get_content_hash(readme_content), JsonDump(data))]

\* delete(): exists() then unlink(); an unlink error is not caught.
CacheDelete(st, repo_name, readme_content, io) ==
    LET key == CacheKey(repo_name, readme_content)
    IN IF st[key].kind = "absent" THEN [store |-> st, raised |-> FALSE]
       ELSE IF io = "unlink_error" THEN [store |-> st, raised |-> TRUE]
       ELSE [store |-> [st EXCEPT ![key] = Absent], raised |-> FALSE]

Present(st) == {k \in Keys : st[k].kind # "absent"}

\* clear_all(): unlink every file of the glob; the first unlink error ends
\* the sweep with the exception, the files before it in glob order (done)
\* are gone.
CacheClearAll(st, failing, done) ==
    IF failing \in Present(st)
    THEN [store |-> [k \in Keys |-> IF k \in done THEN Absent ELSE st[k]],
          raised |-> TRUE]
    ELSE [store |-> [k \in Keys |-> Absent], raised |-> FALSE]

\* clear_expired(): a file is removed when it loads and is past the TTL;
\* every error on one file (load or unlink) is passed over.
CacheClearExpired(st, t, failing) ==
    [k \in Keys |->
        IF /\ st[k].kind = "json"
           /\ k \notin failing
           /\ Expired(st[k], t)
        THEN Absent ELSE st[k]]

----------------------------------------------------------------------------
(* AIResultParser: src/src/ai/parser.py *)

\* The response texts the transport returns here: an analysis object, a
\* JSON value that is no object, and text no strategy decodes.
ObjectText == "{\"summary\": \"s\", \"score\": 8}"
NonObjectText == "5"
GarbageText == "no json here"
ResponseTexts == {ObjectText, NonObjectText, GarbageText}

\* The two texts of the placeholder are given here in English.
_empty_result ==
    [summary |-> "parse failed", key_features |-> <<>>, tech_stack |-> <<>>,
     use_cases |-> <<>>, learning_value |-> "medium", score |-> 5,
     is_worthwhile |-> FALSE, reason |-> "AI result parse failed"]

\* _parse_json: json.loads, then the validated fields; data.get on a value
\* that is no dict raises AttributeError.
_parse_json(text) ==
    IF text = ObjectText
    THEN [ok |-> TRUE,
          value |-> [summary |-> "s", key_features |-> <<>>,
                     tech_stack |-> <<>>, use_cases |-> <<>>,
                     learning_value |-> "medium", score |-> 8,
                     is_worthwhile |-> FALSE, reason |-> ""]]
    ELSE IF text = NonObjectText
    THEN [ok |-> FALSE, error |-> "AttributeError"]
    ELSE [ok |-> FALSE, error |-> "JSONDecodeError"]

\* parse_analysis_result: only JSONDecodeError is caught; none of the texts
\* above holds a fenced block or braces besides the object itself.
parse_analysis_result(response) ==
    LET direct == _parse_json(response)
    IN IF direct.ok \/ direct.error # "JSONDecodeError" THEN direct
       ELSE [ok |-> TRUE, value |-> _empty_result]

----------------------------------------------------------------------------
(* AIClient.analyze_repository: src/src/ai/client.py *)

NoProvider == "None"
Providers == {NoProvider, "claude"}
TransportRaises == "<raise>"
Transports == ResponseTexts \cup {TransportRaises}

NoAnalysis == [none |-> TRUE]

Raised(exc, statuses, calls) ==
    [outcome |-> "raised", exc |-> exc, analysis |-> NoAnalysis,
     statuses |-> statuses, calls |-> calls]
Returned(analysis, statuses, calls) ==
    [outcome |-> "returned", exc |-> "None", analysis |-> analysis,
     statuses |-> statuses, calls |-> calls]

Failed(a, exc) ==
    [a EXCEPT !.analysis_status = "failed", !.error_message = exc]

\* The result object built with a summary as well.
NewAnalysis_WithSummary(provider) ==
    AIAnalysis([summary |-> "", analysis_status |-> "analyzing",
                model_used |-> provider])

\* The result object of line 323: only the status and the model are passed.
NewAnalysis(provider) ==
    AIAnalysis([analysis_status |-> "analyzing", model_used |-> provider])

\* What one call does: how it ends, the statuses the result object went
\* through, and the number of transport calls made.
analyze_repository(provider, transport, t) ==
    LET made == NewAnalysis(provider)
    IN IF ~made.ok THEN Raised(made.error, <<>>, 0)
       ELSE LET a == made.value
            IN IF provider = NoProvider
               THEN Returned(Failed(a, "AttributeError"),
                             <<"analyzing", "failed">>, 0)
               ELSE IF transport = TransportRaises
               THEN Returned(Failed(a, "TransportError"),
                             <<"analyzing", "failed">>, 1)
               ELSE LET parsed == parse_analysis_result(transport)
                    IN IF ~parsed.ok
                       THEN Returned(Failed(a, parsed.error),
                                     <<"analyzing", "failed">>, 1)
                       ELSE Returned(
                              [k \in DOMAIN a |->
                                 IF k \in DOMAIN parsed.value THEN parsed.value[k]
                                 ELSE IF k = "analysis_status" THEN "completed"
                                 ELSE IF k = "analyzed_at" THEN FloatTime(t)
                                 ELSE a[k]],
                              <<"analyzing", "completed">>, 1)

----------------------------------------------------------------------------
Init ==
    /\ store = [k \in Keys |-> Absent]
    /\ now = 0
    /\ queue = <<>>
    /\ repos_with_ai = <<>>
    /\ mode = [running |-> FALSE]
    /\ last = [op |-> "init"]
    /\ cc = [idle |-> TRUE]
    /\ rl = [idle |-> TRUE]
    /\ tb = [idle |-> TRUE]
    /\ pz = [idle |-> TRUE]
    /\ tp = [idle |-> TRUE]
    /\ cl = [idle |-> TRUE]

Tick ==
    /\ now < MaxTime
    /\ now' = now + 1
    /\ UNCHANGED <<store, queue, repos_with_ai, mode, last, aux>>

----------------------------------------------------------------------------
(* AICache called by any client of the cache directory *)

GetIO == {"ok", "read_error"}
SetIO == {"ok", "open_error", "write_error"}
DeleteIO == {"ok", "unlink_error"}

\* The results a caller can construct and hand to set().
CallerAnalyses(t) ==
    {AIAnalysis([summary |-> "s", analysis_status |-> st,
                 analyzed_at |-> at]).value :
        st \in {"completed", "failed"}, at \in {NoTime, DateTime(t)}}

Get(repo_name, readme_content, io) ==
    /\ last' = [op |-> "get", repo |-> repo_name, content |-> readme_content,
                io |-> io, raised |-> FALSE,
                stale |-> LET f == store[CacheKey(repo_name, readme_content)]
                          IN f.kind = "json" /\ Expired(f, now),
                result |-> CacheGet(store, repo_name, readme_content, now, io)]
    /\ UNCHANGED <<store, now, queue, repos_with_ai, mode, aux>>

Set(repo_name, readme_content, analysis, io) ==
    /\ store' = CacheSetStore(store, repo_name, readme_content, analysis,
                              now, io)
    /\ last' = [op |-> "set", repo |-> repo_name, content |-> readme_content,
                io |-> io, raised |-> FALSE, analysis |-> analysis,
                at |-> now]
    /\ UNCHANGED <<now, queue, repos_with_ai, mode, aux>>

Delete(repo_name, readme_content, io) ==
    LET r == CacheDelete(store, repo_name, readme_content, io)
    IN /\ store' = r.store
       /\ last' = [op |-> "delete", repo |-> repo_name,
                   content |-> readme_content, io |-> io,
                   raised |-> r.raised]
       /\ UNCHANGED <<now, queue, repos_with_ai, mode, aux>>

ClearAll(failing, done) ==
    LET r == CacheClearAll(store, failing, done)
    IN /\ store' = r.store
       /\ last' = [op |-> "clear_all", raised |-> r.raised]
       /\ UNCHANGED <<now, queue, repos_with_ai, mode, aux>>

ClearExpired(failing) ==
    /\ store' = CacheClearExpired(store, now, failing)
    /\ last' = [op |-> "clear_expired", raised |-> FALSE,
                failing |-> failing]
    /\ UNCHANGED <<now, queue, repos_with_ai, mode, aux>>

----------------------------------------------------------------------------
(* _run_ai_analysis: src/main.py *)

Batches == UNION {[1..n -> Repos] : n \in 0..MaxBatch}

WithAI(repo_name, analysis) ==
    [repo_name |-> repo_name, ai_analysis |-> analysis]

\* Lines 127-150: an unavailable client returns every repository without
\* analysis at once; otherwise the loop starts on an empty result list.
StartRun(repositories, ai_cache, ai_force, available) ==
    /\ ~mode.running
    /\ IF available
       THEN /\ mode' = [running |-> TRUE, ai_cache |-> ai_cache,
                        ai_force |-> ai_force]
            /\ queue' = repositories
            /\ repos_with_ai' = <<>>
       ELSE UNCHANGED <<mode, queue, repos_with_ai>>
    /\ UNCHANGED <<store, now, last, aux>>

\* A cached result counted whatever its status.
IsHit_AnyStatus(g) == g.hit

\* Line 159: a cached result counts when its status is completed.
IsHit(g) == g.hit /\ g.value.analysis_status = "completed"

\* Line 158: the lookup is made under the empty content.
LookupContent == ""
\* Line 184: the write is made under the fetched readme.
WriteContent(readme) == readme

Times(n, e) == [i \in 1..n |-> e]

\* Lines 152-190: the loop body for the next repository.
Iteration(fetched, transport, ioGet, ioSet) ==
    /\ mode.running
    /\ queue # <<>>
    /\ LET repo_name == Head(queue)
           lookup == mode.ai_cache /\ ~mode.ai_force
           g == IF lookup
                THEN CacheGet(store, repo_name, LookupContent, now, ioGet)
                ELSE [hit |-> FALSE]
           looked == IF lookup THEN <<"cache.get">> ELSE <<>>
       IN IF IsHit(g)
          THEN /\ repos_with_ai' =
                    Append(repos_with_ai, WithAI(repo_name, g.value))
               /\ store' = store
               /\ last' = [op |-> "iteration", repo |-> repo_name,
                           path |-> "hit", events |-> looked,
                           caching |-> mode.ai_cache, at |-> now,
                           readme |-> "", transport |-> "unused",
                           status |-> g.value.analysis_status,
                           analysis |-> g.value]
          ELSE LET r == analyze_repository("claude", transport, now)
                   wrote == r.outcome = "returned" /\ mode.ai_cache
                   events == looked
                             \o <<"limiter.wait", "fetch_readme",
                                  "limiter.wait">>
                             \o Times(r.calls, "transport.call")
                             \o (IF wrote THEN <<"cache.set">> ELSE <<>>)
               IN /\ repos_with_ai' =
                       Append(repos_with_ai, WithAI(repo_name, r.analysis))
                  /\ store' =
                       IF wrote
                       THEN CacheSetStore(store, repo_name,
                                          WriteContent(fetched), r.analysis,
                                          now, ioSet)
                       ELSE store
                  /\ last' = [op |-> "iteration", repo |-> repo_name,
                              path |-> "miss", events |-> events,
                              caching |-> mode.ai_cache, at |-> now,
                              readme |-> fetched, transport |-> transport,
                              status |-> IF r.outcome = "returned"
                                         THEN r.analysis.analysis_status
                                         ELSE "raised",
                              analysis |-> r.analysis]
    /\ queue' = Tail(queue)
    /\ UNCHANGED <<now, mode, aux>>

\* Line 193: the loop is over, the list is returned and the locals are gone.
EndRun ==
    /\ mode.running
    /\ queue = <<>>
    /\ mode' = [running |-> FALSE]
    /\ repos_with_ai' = <<>>
    /\ UNCHANGED <<store, now, queue, last, aux>>

\* analyze_repository called on its own (the repo command, any caller).
Analyze(provider, transport) ==
    /\ last' = [op |-> "analyze", provider |-> provider,
                transport |-> transport,
                result |-> analyze_repository(provider, transport, now)]
    /\ UNCHANGED <<store, now, queue, repos_with_ai, mode, aux>>

----------------------------------------------------------------------------
\* The batch run next to the clients that fill and empty the cache.
Next ==
    \/ Tick
    \/ \E r \in Repos, a \in CallerAnalyses(now) :
          Set(r, LookupContent, a, "ok")
    \/ ClearAll("none", {})
    \/ \E b \in Batches, c \in BOOLEAN, f \in BOOLEAN, a \in BOOLEAN :
          StartRun(b, c, f, a)
    \/ \E f \in FetchResults, t \in Transports, ig \in GetIO, is \in SetIO :
          Iteration(f, t, ig, is)
    \/ EndRun

Spec == Init /\ [][Next]_vars

\* The cache and the client under every operation of their interfaces.
ApiNext ==
    \/ Tick
    \/ \E r \in Repos, c \in FetchResults, io \in GetIO : Get(r, c, io)
    \/ \E r \in Repos, c \in FetchResults, a \in CallerAnalyses(now),
          io \in SetIO : Set(r, c, a, io)
    \/ \E r \in Repos, c \in FetchResults, io \in DeleteIO : Delete(r, c, io)
    \/ \E f \in Keys \cup {"none"}, d \in SUBSET Keys : ClearAll(f, d)
    \/ \E f \in SUBSET Keys : ClearExpired(f)
    \/ \E p \in Providers, t \in Transports : Analyze(p, t)

ApiSpec == Init /\ [][ApiNext]_vars

----------------------------------------------------------------------------
(* Properties *)

Range(seq) == {seq[i] : i \in DOMAIN seq}

\* A step of the loop body: the head of the queue is consumed.
IterStep == mode.running /\ queue # <<>> /\ queue' = Tail(queue)

CacheOps == {"get", "set", "delete", "clear_all", "clear_expired"}

\* C1: with caching on and no force flag, once the loop has analyzed an
\* entity with content c (the transport answering with a well-formed
\* object, so that the analysis is to complete and be written through), the
\* next analysis of that entity with the same content, within the TTL and
\* with no other cache operation in between, is a cache hit and makes no
\* transport call.
C1_ReanalysisIsCacheHit ==
    [][(/\ last.op = "iteration"
        /\ last.path = "miss"
        /\ last.caching
        /\ last.transport = ObjectText
        /\ IterStep
        /\ mode.ai_cache /\ ~mode.ai_force
        /\ Head(queue) = last.repo
        /\ now - last.at <= TtlTicks
        /\ (last'.path = "miss" => last'.readme = last.readme))
       => (/\ last'.path = "hit"
           /\ "transport.call" \notin Range(last'.events))]_vars

\* C2: on a cache hit the loop yields the cached payload, whose status is
\* completed, and for that entity acquires no rate limiter, fetches no
\* document and makes no transport call: the lookup is all it does.
C2_HitShortCircuits ==
    (last.op = "iteration" /\ last.path = "hit") =>
        /\ last.analysis.analysis_status = "completed"
        /\ CacheGet(store, last.repo, LookupContent, last.at, "ok")
             = [hit |-> TRUE, value |-> last.analysis]
        /\ last.events = <<"cache.get">>
        /\ (mode.running /\ repos_with_ai # <<>> =>
              repos_with_ai[Len(repos_with_ai)]
                = WithAI(last.repo, last.analysis))

C2_Witness ==
    /\ last.op = "iteration"
    /\ last.path = "hit"
    /\ mode.running
    /\ repos_with_ai = <<WithAI(last.repo, last.analysis)>>

\* C3: analyze_repository returns an AnalysisResult to its caller for every
\* provider and transport behaviour; no exception propagates.
C3_AnalyzeAlwaysReturns ==
    last.op = "analyze" =>
        /\ last.result.outcome = "returned"
        /\ last.result.analysis # NoAnalysis

\* C4: the result of one analysis call goes through analyzing to completed
\* or failed: the value returned is completed or failed, and it carries an
\* error detail only when it is failed.
C4_StatusEndsTerminal ==
    last.op = "analyze" =>
        /\ last.result.outcome = "returned"
        /\ last.result.statuses \in {<<"analyzing", "completed">>,
                                     <<"analyzing", "failed">>}
        /\ last.result.analysis.analysis_status
             = last.result.statuses[Len(last.result.statuses)]
        /\ (last.result.analysis.error_message # "None"
              => last.result.analysis.analysis_status = "failed")

\* C5: when the transport call raises, the analysis ends failed with the
\* error detail of the exception, after exactly one transport call.
C5_TransportFailureIsFailed ==
    (/\ last.op = "analyze"
     /\ last.provider # NoProvider
     /\ last.transport = TransportRaises) =>
        /\ last.result.outcome = "returned"
        /\ last.result.analysis.analysis_status = "failed"
        /\ last.result.analysis.error_message = "TransportError"
        /\ last.result.calls = 1

\* C6: when the transport returns text no strategy decodes, the analysis
\* ends completed and carries the failure placeholder.
C6_UndecodableIsCompleted ==
    (/\ last.op = "analyze"
     /\ last.provider # NoProvider
     /\ last.transport = GarbageText) =>
        /\ last.result.outcome = "returned"
        /\ last.result.analysis.analysis_status = "completed"
        /\ \A k \in DOMAIN _empty_result :
              last.result.analysis[k] = _empty_result[k]

C8_RoundTrip ==
    (/\ last.op = "set"
     /\ last.io = "ok"
     /\ LET f == store[CacheKey(last.repo, last.content)]
        IN f.kind = "json" => ~Expired(f, now)) =>
        CacheGet(store, last.repo, last.content, now, "ok")
          = [hit |-> TRUE, value |-> last.analysis]

\* C9: get on an entry older than the TTL returns none and leaves the
\* entry, still expired, in the store.
C9_ExpiredReadMissesAndKeeps ==
    (last.op = "get" /\ last.stale) =>
        /\ ~last.result.hit
        /\ LET f == store[CacheKey(last.repo, last.content)]
           IN f.kind = "json" /\ Expired(f, now)

C9_Witness ==
    /\ last.op = "get"
    /\ last.stale
    /\ last.io = "ok"
    /\ store[CacheKey(last.repo, last.content)].analysis.analysis_status
         = "completed"

\* C10: no failure of the cache store during get, set, delete,
\* clear_expired or clear_all propagates to the caller.
C10_CacheFailuresSwallowed ==
    last.op \in CacheOps => ~last.raised

\* C11: clear_expired() removes exactly the entries past the TTL: every
\* entry older than the TTL is gone afterwards, an unreadable one included
\* (here the one the set() before the sweep left behind), and every entry
\* within the TTL is kept as it was.
C11_ClearExpiredSweepsExactly ==
    [][(last'.op = "clear_expired" /\ last'.failing = {} /\ now' = now) =>
         /\ \A k \in Keys :
              (store[k].kind = "json" /\ Expired(store[k], now))
                 => store'[k] = Absent
         /\ \A k \in Keys :
              (store[k].kind = "json" /\ ~Expired(store[k], now))
                 => store'[k] = store[k]
         /\ (/\ last.op = "set"
             /\ store[CacheKey(last.repo, last.content)] = Partial
             /\ now - last.at > TtlTicks)
              => store'[CacheKey(last.repo, last.content)] = Absent]_vars

----------------------------------------------------------------------------
(* AICache called by several threads at once: the class holds no lock, so
   the steps of get() and set() on one cache file interleave *)

main == <<store, now, queue, repos_with_ai, mode, last>>

Unused == [idle |-> TRUE]

MainInit ==
    /\ store = [k \in Keys |-> Absent]
    /\ now = 0
    /\ queue = <<>>
    /\ repos_with_ai = <<>>
    /\ mode = [running |-> FALSE]
    /\ last = [op |-> "init"]

\* json.dump hands the text to the file in this many writes
CcChunks == 2

CcThreads == {"t1", "t2"}
CcValues == {"a", "b"}

Chunk(v, i) == [val |-> v, idx |-> i]
Hole == [val |-> "nul", idx |-> 0]

\* the text json.dump produces for the entry holding v
Serialized(v) == [i \in 1..CcChunks |-> Chunk(v, i)]

\* write() of one chunk at a handle's own offset; a gap left by another
\* handle's truncation is filled with zero bytes
CcWriteAt(data, off, c) ==
    IF off < Len(data)
    THEN [data EXCEPT ![off + 1] = c]
    ELSE data \o [i \in 1..(off - Len(data)) |-> Hole] \o <<c>>

\* json.load of the file's text, and get()'s answer: the value, or None
\* when the text is not one whole document
CcDecode(data) ==
    IF \E v \in CcValues : data = Serialized(v)
    THEN CHOOSE v \in CcValues : data = Serialized(v)
    ELSE "miss"

CcIdle == [pc |-> "idle", val |-> "none", off |-> 0, res |-> "none",
           must |-> FALSE]

CcInit ==
    cc = [file |-> [exists |-> FALSE, data |-> <<>>],
          th |-> [t \in CcThreads |-> CcIdle],
          stored |-> FALSE]

\* set(): open(cache_file, "w") creates or truncates the file
CcSetOpen(t, v) ==
    /\ cc.th[t].pc = "idle"
    /\ cc' = [cc EXCEPT !.file = [exists |-> TRUE, data |-> <<>>],
                        !.th[t] = [pc |-> "writing", val |-> v, off |-> 0,
                                   res |-> "none", must |-> FALSE]]
    /\ UNCHANGED <<main, rl, tb, pz, tp, cl>>

\* set(): json.dump writes the next part of the text
CcSetWrite(t) ==
    /\ cc.th[t].pc = "writing"
    /\ cc.th[t].off < CcChunks
    /\ cc' = [cc EXCEPT !.file.data =
                           CcWriteAt(@, cc.th[t].off,
                                     Chunk(cc.th[t].val, cc.th[t].off + 1)),
                        !.th[t].off = @ + 1]
    /\ UNCHANGED <<main, rl, tb, pz, tp, cl>>

\* set(): the with block closes the file and set() returns
CcSetClose(t) ==
    /\ cc.th[t].pc = "writing"
    /\ cc.th[t].off = CcChunks
    /\ cc' = [cc EXCEPT !.th[t].pc = "idle", !.stored = TRUE]
    /\ UNCHANGED <<main, rl, tb, pz, tp, cl>>

\* get(): cache_file.exists(); must records whether a set() had already
\* returned when this get() began
CcGetExists(t) ==
    /\ cc.th[t].pc = "idle"
    /\ cc' = [cc EXCEPT !.th[t] =
                 IF cc.file.exists
                 THEN [CcIdle EXCEPT !.pc = "reading", !.must = cc.stored]
                 ELSE [CcIdle EXCEPT !.res = "miss", !.must = cc.stored]]
    /\ UNCHANGED <<main, rl, tb, pz, tp, cl>>

\* get(): open, json.load, AIAnalysis(**...), or None on any exception
CcGetRead(t) ==
    /\ cc.th[t].pc = "reading"
    /\ cc' = [cc EXCEPT !.th[t].pc = "idle",
                        !.th[t].res = CcDecode(cc.file.data)]
    /\ UNCHANGED <<main, rl, tb, pz, tp, cl>>

ConcInit == MainInit /\ CcInit /\ rl = Unused /\ tb = Unused /\ pz = Unused
       /\ tp = Unused /\ cl = Unused

ConcNext ==
    \/ \E t \in CcThreads, v \in CcValues : CcSetOpen(t, v)
    \/ \E t \in CcThreads : CcSetWrite(t)
    \/ \E t \in CcThreads : CcSetClose(t)
    \/ \E t \in CcThreads : CcGetExists(t)
    \/ \E t \in CcThreads : CcGetRead(t)

ConcSpec == ConcInit /\ [][ConcNext]_vars

\* C12: calls on one cache are serialized: a get() that began after some
\* set() had returned never misses because of a half-written file, and
\* once no set() is in progress the file holds one of the written values
\* whole, never a mixture of two.
C12_CallsAreSerialized ==
    /\ \A t \in CcThreads :
          (cc.th[t].pc = "idle" /\ cc.th[t].res = "miss") => ~cc.th[t].must
    /\ (cc.stored /\ \A t \in CcThreads : cc.th[t].pc # "writing")
          => CcDecode(cc.file.data) # "miss"

----------------------------------------------------------------------------
(* RateLimiter: one instance shared by the threads that call acquire();
   time in whole seconds *)

\* defaults of RateLimiter.__init__
RlMinDelay == 1
RlMaxDelay == 3

\* seconds the clock runs on after the limiter is built
RlHorizon == 3
\* acquire() calls one thread makes
RlMaxCalls == 3

RlThreads == {"t1", "t2"}

\* (min_delay, max_delay) the limiter is built with
RlBounds == {<<RlMinDelay, RlMinDelay>>, <<RlMinDelay, RlMaxDelay>>}

\* time.time() when the limiter is built: seconds since 1970, further from
\* the initial _last_request_time = 0 than any delay
RlEpoch == RlMaxDelay + 1

RlNoReturn == [by |-> "none", at |-> 0, entry |-> 0, last_time |-> 0]

RlThreadInit == [pc |-> "idle", entry |-> 0, wake |-> 0, calls |-> 0]

RlInit ==
    \E b \in RlBounds :
       rl = [min_delay |-> b[1], max_delay |-> b[2],
             _last_request_time |-> 0,
             _lock |-> "free",
             clock |-> RlEpoch,
             th |-> [t \in RlThreads |-> RlThreadInit],
             prev |-> RlNoReturn,
             cur |-> RlNoReturn]

\* the record of an acquire() of thread t that returns now
RlReturn(t, last_time) ==
    [by |-> t, at |-> rl.clock, entry |-> rl.th[t].entry,
     last_time |-> last_time]

\* _last_request_time after the waiting branch of acquire(): the branch
\* sleeps and returns wait_time without assigning it
Acquire_Waits(t, wake) == rl._last_request_time

\* a thread calls acquire() and queues for the lock
RlCall(t) ==
    /\ rl.th[t].pc = "idle"
    /\ rl.th[t].calls < RlMaxCalls
    /\ rl' = [rl EXCEPT !.th[t].pc = "queued",
                        !.th[t].entry = rl.clock,
                        !.th[t].calls = @ + 1]
    /\ UNCHANGED <<main, cc, tb, pz, tp, cl>>

\* with self._lock: now, elapsed, delay; either start the sleep with the
\* lock held, or set _last_request_time and return 0.0
RlEnter(t, delay) ==
    /\ rl.th[t].pc = "queued"
    /\ rl._lock = "free"
    /\ LET elapsed == rl.clock - rl._last_request_time
       IN IF elapsed < delay
          THEN rl' = [rl EXCEPT !._lock = t,
                                !.th[t].pc = "sleeping",
                                !.th[t].wake = rl.clock + (delay - elapsed)]
          ELSE rl' = [rl EXCEPT !._last_request_time = rl.clock,
                                !.th[t].pc = "idle",
                                !.prev = rl.cur,
                                !.cur = RlReturn(t, rl.clock)]
    /\ UNCHANGED <<main, cc, tb, pz, tp, cl>>

\* time.sleep(wait_time) is over: return wait_time, releasing the lock
RlWake(t) ==
    /\ rl.th[t].pc = "sleeping"
    /\ rl.clock >= rl.th[t].wake
    /\ LET lt == Acquire_Waits(t, rl.th[t].wake)
       IN rl' = [rl EXCEPT !._last_request_time = lt,
                           !._lock = "free",
                           !.th[t].pc = "idle",
                           !.prev = rl.cur,
                           !.cur = RlReturn(t, lt)]
    /\ UNCHANGED <<main, cc, tb, pz, tp, cl>>

RlTick ==
    /\ rl.clock < RlEpoch + RlHorizon
    /\ rl' = [rl EXCEPT !.clock = @ + 1]
    /\ UNCHANGED <<main, cc, tb, pz, tp, cl>>

LimiterInit ==
    MainInit /\ RlInit /\ cc = Unused /\ tb = Unused /\ pz = Unused
       /\ tp = Unused /\ cl = Unused

LimiterNext ==
    \/ \E t \in RlThreads : RlCall(t)
    \/ \E t \in RlThreads : \E d \in rl.min_delay..rl.max_delay :
          RlEnter(t, d)
    \/ \E t \in RlThreads : RlWake(t)
    \/ RlTick

LimiterSpec == LimiterInit /\ [][LimiterNext]_vars

\* C13: calls made one after the other by a single thread: each acquire()
\* returns no earlier than min_delay after the one before it returned.
C13_SequentialCallsAreSpaced ==
    (/\ rl.prev.by # "none"
     /\ \E t \in RlThreads : \A u \in RlThreads \ {t} : rl.th[u].calls = 0)
       => rl.cur.at - rl.prev.at >= rl.min_delay

\* C14: several threads on one limiter: two acquire() calls of different
\* threads never return less than min_delay apart.
C14_ThreadsAreSpaced ==
    (rl.prev.by # "none" /\ rl.prev.by # rl.cur.by)
       => rl.cur.at - rl.prev.at >= rl.min_delay

\* C15: whenever acquire() returns, _last_request_time is the time of that
\* acquisition, so not older than the moment the call was entered.
C15_LastTimeIsUpdatedOnReturn ==
    rl.cur.by # "none"
       => (rl.cur.last_time = rl.cur.at /\ rl.cur.last_time >= rl.cur.entry)

----------------------------------------------------------------------------
(* TokenBucket: consume() and wait_for_token() on one bucket shared by
   several threads; time in whole seconds, counted from last_time *)

\* tokens per second the bucket is built with
TbRate == 1
\* capacity the bucket is built with
TbCapacity == 2

TbThreads == {"t1", "t2"}

\* token counts asked for: none, some, all, more than the bucket holds
TbRequests == 0..(TbCapacity + 1)

Min(a, b) == IF a < b THEN a ELSE b

Replenish_Uncapped(capacity, tokens, elapsed, rate) ==
    tokens + elapsed * rate

\* self.tokens = min(self.capacity, self.tokens + elapsed * self.rate)
Replenish(capacity, tokens, elapsed, rate) ==
    Min(capacity, tokens + elapsed * rate)

\* consume(n) on a bucket b: the new balance and the returned value
consume(b, n) ==
    LET filled == Replenish(b.capacity, b.tokens, b.elapsed, b.rate)
    IN IF filled >= n
       THEN [tokens |-> filled - n, result |-> TRUE]
       ELSE [tokens |-> filled, result |-> FALSE]

\* the record of one consume() call
TbOp(b, n, c) ==
    [n |-> n, before |-> b.tokens, elapsed |-> b.elapsed,
     result |-> c.result, after |-> c.tokens, none |-> FALSE]

TbNoOp == [n |-> 0, before |-> 0, elapsed |-> 0, result |-> FALSE,
           after |-> 0, none |-> TRUE]

TbThreadInit == [pc |-> "idle", n |-> 0, rem |-> 0, waited |-> FALSE,
                 outcome |-> "none"]

\* time since last_time is kept up to the point where the bucket is full
\* whatever it held
TbInit ==
    tb = [rate |-> TbRate, capacity |-> TbCapacity, tokens |-> TbCapacity,
          elapsed |-> 0,
          th |-> [t \in TbThreads |-> TbThreadInit],
          op |-> TbNoOp]

\* a thread calls consume(n) itself
TbConsume(t, n) ==
    /\ tb.th[t].pc = "idle"
    /\ LET c == consume(tb, n)
       IN tb' = [tb EXCEPT !.tokens = c.tokens, !.elapsed = 0,
                           !.op = TbOp(tb, n, c)]
    /\ UNCHANGED <<main, cc, rl, pz, tp, cl>>

\* a thread calls wait_for_token(n)
TbWaitCall(t, n) ==
    /\ tb.th[t].pc = "idle"
    /\ tb' = [tb EXCEPT !.th[t] = [TbThreadInit EXCEPT !.pc = "loop",
                                                      !.n = n]]
    /\ UNCHANGED <<main, cc, rl, pz, tp, cl>>

\* one test of the while condition: consume(n); on True the loop ends and
\* return wait_time either returns or, no iteration having bound the
\* name, raises UnboundLocalError; on False wait_time is computed and the
\* thread sleeps
TbWaitConsume(t) ==
    /\ tb.th[t].pc = "loop"
    /\ LET n == tb.th[t].n
           c == consume(tb, n)
       IN tb' = [tb EXCEPT
                   !.tokens = c.tokens, !.elapsed = 0,
                   !.op = TbOp(tb, n, c),
                   !.th[t] =
                      IF c.result
                      THEN [@ EXCEPT !.pc = "idle",
                                     !.outcome = IF tb.th[t].waited
                                                 THEN "returned"
                                                 ELSE "raised"]
                      ELSE [@ EXCEPT !.pc = "sleeping",
                                     !.waited = TRUE,
                                     !.rem = (n - c.tokens) \div tb.rate]]
    /\ UNCHANGED <<main, cc, rl, pz, tp, cl>>

\* time.sleep(max(0.1, wait_time)) is over
TbWake(t) ==
    /\ tb.th[t].pc = "sleeping"
    /\ tb.th[t].rem = 0
    /\ tb' = [tb EXCEPT !.th[t].pc = "loop"]
    /\ UNCHANGED <<main, cc, rl, pz, tp, cl>>

\* one second passes
TbTick ==
    /\ tb' = [tb EXCEPT
                !.elapsed = Min(@ + 1, tb.capacity),
                !.th = [t \in TbThreads |->
                          [tb.th[t] EXCEPT !.rem = IF @ > 0 THEN @ - 1
                                                   ELSE 0]]]
    /\ UNCHANGED <<main, cc, rl, pz, tp, cl>>

BucketInit ==
    MainInit /\ TbInit /\ cc = Unused /\ rl = Unused /\ pz = Unused
       /\ tp = Unused /\ cl = Unused

BucketNext ==
    \/ \E t \in TbThreads, n \in TbRequests : TbConsume(t, n)
    \/ \E t \in TbThreads, n \in TbRequests : TbWaitCall(t, n)
    \/ \E t \in TbThreads : TbWaitConsume(t)
    \/ \E t \in TbThreads : TbWake(t)
    \/ TbTick

\* time passes, and a thread that can run its next step runs it
BucketSpec ==
    /\ BucketInit
    /\ [][BucketNext]_vars
    /\ WF_vars(TbTick)
    /\ \A t \in TbThreads : WF_vars(TbWaitConsume(t))
    /\ \A t \in TbThreads : WF_vars(TbWake(t))

\* C16: a wait_for_token(n) call eventually ends, also when n is larger
\* than the capacity of the bucket.
C16_WaitForTokenEnds ==
    \A t \in TbThreads :
       (tb.th[t].pc # "idle" /\ tb.th[t].n > tb.capacity)
          ~> (tb.th[t].pc = "idle")

----------------------------------------------------------------------------
(* AIResultParser on whole response texts. A text is a sequence of pieces
   separated by white space: prose, prose holding "{...}", a line of three
   backticks with or without a tag, and a JSON document; a string is a
   sequence of characters *)

Fields == {"summary", "key_features", "tech_stack", "use_cases",
           "learning_value", "score", "is_worthwhile", "reason"}

\* JSON values as json.loads returns them
J(t) == [t |-> t, s |-> <<>>, n |-> 0, b |-> FALSE, items |-> <<>>]
Missing == J("missing")
JNull == J("null")
\* an integer literal too large for a float
JBig == J("bigint")
JStr(s) == [J("str") EXCEPT !.s = s]
JNum(n) == [J("num") EXCEPT !.n = n]
JBool(b) == [J("bool") EXCEPT !.b = b]
JList(items) == [J("list") EXCEPT !.items = items]

NoFields == [f \in Fields |-> Missing]

\* the pieces of a text
Piece(k) == [k |-> k, tag |-> "", isobj |-> FALSE, obj |-> NoFields,
             val |-> Missing]
Prose == Piece("prose")
BraceProse == Piece("brace")
Fence(tag) == [Piece("fence") EXCEPT !.tag = tag]
ObjDoc(o) == [Piece("json") EXCEPT !.isobj = TRUE, !.obj = o]
ValDoc(v) == [Piece("json") EXCEPT !.val = v]

Whitespace == {" "}
ControlChars == {"^I"}

\* str.strip()
Strip(s) ==
    LET keep == {i \in DOMAIN s : s[i] \notin Whitespace}
    IN IF keep = {} THEN <<>>
       ELSE SubSeq(s, CHOOSE i \in keep : \A j \in keep : i <= j,
                      CHOOSE i \in keep : \A j \in keep : i >= j)

LowerMap == [T |-> "t", Y |-> "y", E |-> "e", S |-> "s"]
LowerChar(c) == IF c \in DOMAIN LowerMap THEN LowerMap[c] ELSE c
\* str.lower()
Lower(s) == [i \in DOMAIN s |-> LowerChar(s[i])]

DigitChar(d) == <<"0", "1", "2", "3", "4", "5", "6", "7", "8", "9">>[d + 1]
RECURSIVE NatText(_)
NatText(n) ==
    IF n < 10 THEN <<DigitChar(n)>>
    ELSE NatText(n \div 10) \o <<DigitChar(n % 10)>>
NumText(n) == IF n < 0 THEN <<"-">> \o NatText(0 - n) ELSE NatText(n)

\* the numbers float() is asked to read here
ParsedNumbers == (0 - 20)..20

\* float(s) of a string: white space around the number is ignored
FloatOf(s) ==
    LET t == Strip(s)
    IN IF \E n \in ParsedNumbers : NumText(n) = t
       THEN [ok |-> TRUE, n |-> CHOOSE n \in ParsedNumbers : NumText(n) = t]
       ELSE [ok |-> FALSE, n |-> 0]

\* the truth value Python gives a JSON value
Truthy(v) ==
    CASE v.t = "str" -> v.s # <<>>
      [] v.t = "num" -> v.n # 0
      [] v.t = "bool" -> v.b
      [] v.t = "list" -> v.items # <<>>
      [] v.t = "bigint" -> TRUE
      [] OTHER -> FALSE

\* str(v)
PyStr(v) ==
    CASE v.t = "str" -> v.s
      [] v.t = "num" -> NumText(v.n)
      [] v.t = "bool" -> IF v.b THEN <<"T", "r", "u", "e">>
                         ELSE <<"F", "a", "l", "s", "e">>
      [] v.t = "bigint" -> <<"1", "0", "0", "0">>
      [] v.t = "list" -> <<"[", "]">>
      [] OTHER -> <<"N", "o", "n", "e">>

_get_str(data, key, default) ==
    IF data[key].t = "str" THEN Strip(data[key].s) ELSE default

\* [str(v).strip() for v in value if v]
_get_list(data, key) ==
    IF data[key].t = "list"
    THEN LET kept == SelectSeq(data[key].items, Truthy)
         IN [i \in DOMAIN kept |-> Strip(PyStr(kept[i]))]
    ELSE <<>>

\* float(value) of an int or a float (a bool is an int), float(str) with
\* ValueError caught, else the default; OverflowError is not caught
_get_float(data, key, default) ==
    LET v == data[key]
    IN CASE v.t = "num" -> [ok |-> TRUE, n |-> v.n]
         [] v.t = "bool" -> [ok |-> TRUE, n |-> IF v.b THEN 1 ELSE 0]
         [] v.t = "bigint" -> [ok |-> FALSE, n |-> 0]
         [] v.t = "str" -> IF FloatOf(v.s).ok
                           THEN [ok |-> TRUE, n |-> FloatOf(v.s).n]
                           ELSE [ok |-> TRUE, n |-> default]
         [] OTHER -> [ok |-> TRUE, n |-> default]

_get_bool(data, key, default) ==
    LET v == data[key]
    IN CASE v.t = "bool" -> v.b
         [] v.t = "str" -> Lower(v.s) \in {<<"t", "r", "u", "e">>,
                                           <<"y", "e", "s">>, <<"1">>}
         [] v.t = "num" -> v.n # 0
         [] v.t = "bigint" -> TRUE
         [] OTHER -> default

sMedium == <<"m", "e", "d", "i", "u", "m">>
sHigh == <<"h", "i", "g", "h">>
sLow == <<"l", "o", "w">>

Max(a, b) == IF a > b THEN a ELSE b

NoValue == [none |-> TRUE]
Ok(value) == [ok |-> TRUE, value |-> value, error |-> "None"]
Err(error) == [ok |-> FALSE, value |-> NoValue, error |-> error]

\* the placeholder, its two texts given by their first letters
EmptyResult ==
    [summary |-> <<"p", "f">>, key_features |-> <<>>, tech_stack |-> <<>>,
     use_cases |-> <<>>, learning_value |-> sMedium, score |-> 5,
     is_worthwhile |-> FALSE, reason |-> <<"r", "f">>]

\* re.sub(r"[\x00-\x1f\x7f-\x9f]", "", json_str)
CleanStr(s) == SelectSeq(s, LAMBDA c : c \notin ControlChars)
CleanValue(v) ==
    [t |-> v.t, s |-> CleanStr(v.s), n |-> v.n, b |-> v.b,
     items |-> [i \in DOMAIN v.items |->
                  [v.items[i] EXCEPT !.s = CleanStr(v.items[i].s)]]]
StripControl(text) ==
    [i \in DOMAIN text |->
       [text[i] EXCEPT !.obj = [f \in Fields |-> CleanValue(text[i].obj[f])],
                       !.val = CleanValue(text[i].val)]]

\* json.loads: the text must be one document and nothing else
JsonLoads(text) ==
    IF Len(text) = 1 /\ text[1].k = "json"
    THEN [ok |-> TRUE, doc |-> text[1]]
    ELSE [ok |-> FALSE, doc |-> Prose]

\* the score left as _get_float returned it
Clamp_Unclamped(score) == score

\* result["score"] = max(0.0, min(10.0, result["score"]))
Clamp(score) == Max(0, Min(10, score))

\* _parse_json: how it ends, and the validated fields when it returns
ParseJson(json_str) ==
    LET loaded == JsonLoads(StripControl(json_str))
        data == loaded.doc.obj
        score == _get_float(data, "score", 5)
        tier == _get_str(data, "learning_value", sMedium)
    IN IF ~loaded.ok THEN Err("JSONDecodeError")
       ELSE IF ~loaded.doc.isobj THEN Err("AttributeError")
       ELSE IF ~score.ok THEN Err("OverflowError")
       ELSE Ok([summary |-> _get_str(data, "summary", <<>>),
                key_features |-> _get_list(data, "key_features"),
                tech_stack |-> _get_list(data, "tech_stack"),
                use_cases |-> _get_list(data, "use_cases"),
                learning_value |-> IF tier \in {sHigh, sMedium, sLow}
                                   THEN tier ELSE sMedium,
                score |-> Clamp(score.n),
                is_worthwhile |-> _get_bool(data, "is_worthwhile", FALSE),
                reason |-> _get_str(data, "reason", <<>>)])

HasOpenBrace(p) == p.k = "brace" \/ (p.k = "json" /\ p.isobj)
HasCloseBrace(p) == p.k = "brace" \/ (p.k = "json" /\ p.isobj)
IsFence(p) == p.k = "fence"
\* three backticks, then nothing or json, then white space only
OpensBlock(p) == p.k = "fence" /\ p.tag \in {"", "json"}

Least(S) == CHOOSE i \in S : \A j \in S : i <= j
Greatest(S) == CHOOSE i \in S : \A j \in S : i >= j

\* re.search(r"```(?:json)?\s*(\{.+?\})\s*```", ...): the leftmost opening,
\* and from it the shortest stretch that ends in "}" before backticks
FenceEnds(text, i) ==
    {j \in (i + 1)..(Len(text) - 1) :
        HasCloseBrace(text[j]) /\ IsFence(text[j + 1])}
FenceStarts(text) ==
    {i \in 1..(Len(text) - 1) :
        /\ OpensBlock(text[i])
        /\ HasOpenBrace(text[i + 1])
        /\ FenceEnds(text, i) # {}}
FenceGroup(text) ==
    LET i == Least(FenceStarts(text))
    IN SubSeq(text, i + 1, Least(FenceEnds(text, i)))

\* re.search(r"\{.+\}", ...): from the first "{" to the last "}"
BracePieces(text) == {i \in DOMAIN text : HasOpenBrace(text[i])}
BraceGroup(text) ==
    SubSeq(text, Least(BracePieces(text)), Greatest(BracePieces(text)))

Caught(r) == ~r.ok /\ r.error = "JSONDecodeError"

\* parse_analysis_result: the three attempts; only JSONDecodeError is
\* caught
ParseAnalysisResult(response) ==
    LET direct == ParseJson(response)
    IN IF ~Caught(direct) THEN direct
       ELSE IF FenceStarts(response) # {}
                 /\ ~Caught(ParseJson(FenceGroup(response)))
       THEN ParseJson(FenceGroup(response))
       ELSE IF BracePieces(response) # {}
                 /\ ~Caught(ParseJson(BraceGroup(response)))
       THEN ParseJson(BraceGroup(response))
       ELSE Ok(EmptyResult)

\* json.dumps of a returned payload
Serialize(p) ==
    <<ObjDoc([summary |-> JStr(p.summary),
              key_features |->
                 JList([i \in DOMAIN p.key_features |->
                          JStr(p.key_features[i])]),
              tech_stack |->
                 JList([i \in DOMAIN p.tech_stack |-> JStr(p.tech_stack[i])]),
              use_cases |->
                 JList([i \in DOMAIN p.use_cases |-> JStr(p.use_cases[i])]),
              learning_value |-> JStr(p.learning_value),
              score |-> JNum(p.score),
              is_worthwhile |-> JBool(p.is_worthwhile),
              reason |-> JStr(p.reason)])>>

\* the analysis objects and the other documents the texts hold
PzObjects ==
    {[NoFields EXCEPT !.summary = su, !.key_features = kf,
                      !.learning_value = lv, !.score = sc,
                      !.is_worthwhile = iw] :
       su \in {Missing, JStr(<<" ", "a", "^I", "b">>), JNum(5)},
       kf \in {Missing, JList(<<JStr(<<"a", " ">>), JNull, JNum(5)>>),
               JList(<<JStr(<<" ">>)>>), JStr(<<"a">>)},
       lv \in {Missing, JStr(sHigh), JStr(<<"x">>)},
       sc \in {Missing, JNum(0 - 5), JNum(0), JNum(7), JNum(10), JNum(15),
               JStr(<<" ", "8">>),
               JStr(<<"x">>), JBool(TRUE), JBig},
       iw \in {Missing, JBool(TRUE), JStr(<<"Y", "e", "s">>), JNum(0)}}

PzValues == {JNum(5), JStr(<<"a">>), JList(<<>>), JNull}

ObjectShapes == {"raw", "fenced_json", "fenced_tag", "fenced_bare",
                 "in_prose", "prose_fenced", "braces_after",
                 "braces_before"}
Shapes == ObjectShapes \cup {"value", "prose", "empty"}

\* the text of a shape around the object o or the value v
ShapeText(shape, o, v) ==
    CASE shape = "raw" -> <<ObjDoc(o)>>
      [] shape = "fenced_json" -> <<Fence("json"), ObjDoc(o), Fence("")>>
      [] shape = "fenced_tag" -> <<Fence("js"), ObjDoc(o), Fence("")>>
      [] shape = "fenced_bare" -> <<Fence(""), ObjDoc(o), Fence("")>>
      [] shape = "in_prose" -> <<Prose, ObjDoc(o), Prose>>
      [] shape = "prose_fenced" ->
            <<Prose, Fence("json"), ObjDoc(o), Fence(""), Prose>>
      [] shape = "braces_after" -> <<Prose, ObjDoc(o), BraceProse>>
      [] shape = "braces_before" -> <<BraceProse, ObjDoc(o), Prose>>
      [] shape = "value" -> <<ValDoc(v)>>
      [] shape = "prose" -> <<Prose>>
      [] OTHER -> <<>>

NotRun == [ok |-> FALSE, value |-> NoValue, error |-> "not run"]

PzInit ==
    \E shape \in Shapes :
    \E o \in IF shape \in ObjectShapes THEN PzObjects ELSE {NoFields} :
    \E v \in IF shape = "value" THEN PzValues ELSE {Missing} :
       pz = [shape |-> shape, obj |-> o,
             text |-> ShapeText(shape, o, v),
             out |-> NotRun, again |-> NotRun]

\* the response is interpreted
PzParse ==
    /\ pz.out = NotRun
    /\ pz' = [pz EXCEPT !.out = ParseAnalysisResult(pz.text)]
    /\ UNCHANGED <<main, cc, rl, tb, tp, cl>>

\* the returned payload is serialized and interpreted once more
PzReparse ==
    /\ pz.out.ok
    /\ pz.again = NotRun
    /\ pz' = [pz EXCEPT !.again = ParseAnalysisResult(Serialize(pz.out.value))]
    /\ UNCHANGED <<main, cc, rl, tb, tp, cl>>

ParserInit ==
    MainInit /\ PzInit /\ cc = Unused /\ rl = Unused /\ tb = Unused
       /\ tp = Unused /\ cl = Unused

ParserNext == PzParse \/ PzReparse

ParserSpec == ParserInit /\ [][ParserNext]_vars

\* C18: parse_analysis_result returns a payload for every text and never
\* raises, whether the text is JSON that is no object or an object whose
\* fields have unexpected types.
C18_ParseNeverRaises ==
    pz.out # NotRun => pz.out.ok

\* C19: one analysis object gives the same result raw, inside a fenced
\* block with a language tag, and surrounded by prose before and after.
C19_ShapesGiveTheSameResult ==
    (/\ pz.out # NotRun
     /\ pz.shape \in {"raw", "fenced_json", "fenced_tag", "in_prose",
                      "braces_after"})
       => pz.out = ParseAnalysisResult(ShapeText("raw", pz.obj, Missing))

\* C20: interpreting the serialization of a returned payload gives that
\* payload again, equal in every field.
C20_ParseIsIdempotent ==
    pz.again # NotRun => pz.again = pz.out

\* C21: every payload the interpreter returns has a score within [0, 10]
\* and a learning_value among high, medium and low, medium standing in for
\* any other tier; a numeric input score is clamped, so -5, 0, 10 and 15
\* give 0, 0, 10 and 10.
C21_ScoreAndTierInRange ==
    (pz.out # NotRun /\ pz.out.ok) =>
       /\ pz.out.value.score \in 0..10
       /\ pz.out.value.learning_value \in {sHigh, sMedium, sLow}
       /\ (pz.shape = "raw" /\ pz.obj.score.t = "num") =>
             pz.out.value.score =
                IF pz.obj.score.n < 0 THEN 0
                ELSE IF pz.obj.score.n > 10 THEN 10
                ELSE pz.obj.score.n
       /\ (pz.shape = "raw" /\ pz.obj.learning_value.t = "str"
             /\ pz.obj.learning_value.s \notin {sHigh, sMedium, sLow}) =>
             pz.out.value.learning_value = sMedium

\* an object with score 15 and an unknown tier was interpreted
C21_Witness ==
    /\ pz.out.ok
    /\ pz.shape = "raw"
    /\ pz.obj.score = JNum(15)
    /\ pz.obj.learning_value = JStr(<<"x">>)
    /\ pz.out.value.score = 10
    /\ pz.out.value.learning_value = sMedium

----------------------------------------------------------------------------
(* TrendingParser: src/src/scraper/parser.py. Texts and hrefs are sequences
   of characters; a page is the sequence of its elements that may hold a
   repository, each with its links and count texts *)

\* longest count text built freely from the alphabet
TpMaxLen == 2
\* elements of a page
TpMaxEntries == 2

TpDigits == {"0", "1", "2", "3", "4", "5", "6", "7", "8", "9"}
TpAlphabet == {"1", "5", ",", ".", "k", "K", "a", " "}

DigitVal(c) ==
    CHOOSE d \in 0..9 : DigitChar(d) = c

RECURSIVE IntOfDigits(_)
IntOfDigits(s) ==
    IF s = <<>> THEN 0
    ELSE 10 * IntOfDigits(SubSeq(s, 1, Len(s) - 1)) + DigitVal(s[Len(s)])

AllDigits(s) == s # <<>> /\ \A i \in DOMAIN s : s[i] \in TpDigits

\* str.strip(chars)
StripChars(s, chars) ==
    LET keep == {i \in DOMAIN s : s[i] \notin chars}
    IN IF keep = {} THEN <<>>
       ELSE SubSeq(s, Least(keep), Greatest(keep))

\* str.split(sep)
RECURSIVE SplitOn(_, _)
SplitOn(s, sep) ==
    IF \A i \in DOMAIN s : s[i] # sep THEN <<s>>
    ELSE LET i == Least({j \in DOMAIN s : s[j] = sep})
         IN <<SubSeq(s, 1, i - 1)>> \o SplitOn(SubSeq(s, i + 1, Len(s)), sep)

\* re.match(r"([\d.]+)k", text, re.IGNORECASE): the digits and dots the
\* text begins with, when a k follows them
RunLen(s) ==
    Least({i \in 1..Len(s) : s[i] \notin TpDigits \cup {"."}}
             \cup {Len(s) + 1}) - 1
KMatches(s) ==
    RunLen(s) >= 1 /\ RunLen(s) < Len(s) /\ s[RunLen(s) + 1] \in {"k", "K"}
KGroup(s) == SubSeq(s, 1, RunLen(s))

\* float(s) reads digits with at most one point, else raises ValueError
FloatReads(s) ==
    /\ Cardinality({i \in DOMAIN s : s[i] = "."}) <= 1
    /\ \E i \in DOMAIN s : s[i] \in TpDigits

\* the decimal s times 1000, cut to an integer
Thousandfold(s) ==
    LET parts == SplitOn(s, ".")
        frac == IF Len(parts) = 2 THEN parts[2] ELSE <<>>
        three == SubSeq(frac \o <<"0", "0", "0">>, 1, 3)
    IN IntOfDigits(parts[1]) * 1000 + IntOfDigits(three)

\* decimals whose nearest float times 1000 lies just below the integer
\* (2.01 * 1000 is 2009.9999999999998, 32.3 * 1000 is 32299.999999999996)
RoundsDown == {<<"2", ".", "0", "1">>, <<"3", "2", ".", "3">>}

\* int(float(k_match.group(1)) * 1000)
FloatThousand(s) ==
    IF s \in RoundsDown THEN Thousandfold(s) - 1 ELSE Thousandfold(s)

\* int(text): digits, a sign allowed before them
IntReads(s) ==
    \/ AllDigits(s)
    \/ (Len(s) > 1 /\ s[1] \in {"+", "-"} /\ AllDigits(Tail(s)))
IntOf(s) ==
    IF s[1] = "-" THEN 0 - IntOfDigits(Tail(s))
    ELSE IF s[1] = "+" THEN IntOfDigits(Tail(s))
    ELSE IntOfDigits(s)

NumberReturned(n) == [raised |-> FALSE, value |-> n]
NumberRaised == [raised |-> TRUE, value |-> 0]

\* _parse_number: the float() of the k branch is outside the try
_parse_number(text) ==
    LET t == SelectSeq(Strip(text), LAMBDA c : c # ",")
    IN IF KMatches(t)
       THEN IF FloatReads(KGroup(t))
            THEN NumberReturned(FloatThousand(KGroup(t)))
            ELSE NumberRaised
       ELSE IF IntReads(t) THEN NumberReturned(IntOf(t))
       ELSE NumberReturned(0)

\* count texts: every short text over the alphabet, and longer ones as
\* the listing page shows them
TpLongTexts ==
    {<<"1", ",", "2", "3", "4">>, <<"1", ".", "5", "k">>,
     <<"1", ".", "2", ".", "3", "k">>, <<"3", "2", ".", "3", "k">>,
     <<"2", ".", "0", "1", "K">>, <<" ", "4", "2", " ">>, <<"-", "5">>,
     <<"a", "b", "c">>}
TpTexts ==
    UNION {[1..n -> TpAlphabet] : n \in 0..TpMaxLen} \cup TpLongTexts
\* an element of the page: the selector that finds it, its links in
\* document order, and the texts of its parts
Link(in, href) == [in |-> in, href |-> href]
NoText == [has |-> FALSE, text |-> <<>>]
Text(t) == [has |-> TRUE, text |-> t]
Para(chars, text) == [chars |-> chars, text |-> text]

\* _find_repo_articles: the elements of the first selector that matches
\* any, else the articles whose class matches Box|repo
Selectors == <<"article.Box-row", "article[data-test-id='repo-row']",
               "div.Box-row", "li.js-repo-list-item">>
Matching(page, selector) == SelectSeq(page, LAMBDA e : e.sel = selector)
_find_repo_articles(page) ==
    LET hits == {i \in DOMAIN Selectors : Matching(page, Selectors[i]) # <<>>}
    IN IF hits # {} THEN Matching(page, Selectors[Least(hits)])
       ELSE Matching(page, "article.repo")

\* select_one of the three link selectors on an article
FirstLink(article, selector) ==
    LET chosen == SelectSeq(article.links,
                     LAMBDA l : CASE selector = "h2 a[href]" -> l.in = "h2"
                                  [] selector = "h1 a[href]" -> l.in = "h1"
                                  [] OTHER -> l.href # <<>>
                                                 /\ l.href[1] = "/")
    IN IF chosen = <<>> THEN [found |-> FALSE, link |-> Link("", <<>>)]
       ELSE [found |-> TRUE, link |-> chosen[1]]

link_selectors == <<"h2 a[href]", "h1 a[href]", "a[href^='/']">>

\* href.strip("/ ").split("/")[0:2]
RepoPath(href) ==
    LET parts == SplitOn(StripChars(href, {"/", " "}), "/")
    IN SubSeq(parts, 1, Min(2, Len(parts)))

\* the selectors whose first link gives a path of two parts
NamingSelectors(article) ==
    {i \in DOMAIN link_selectors :
        /\ FirstLink(article, link_selectors[i]).found
        /\ Len(RepoPath(FirstLink(article, link_selectors[i]).link.href)) = 2}

NoName == [found |-> FALSE, owner |-> <<>>, name |-> <<>>, href |-> <<>>]

\* _extract_repo_name: the first selector whose link gives two parts
_extract_repo_name(article) ==
    IF NamingSelectors(article) = {} THEN NoName
    ELSE LET l == FirstLink(article,
                     link_selectors[Least(NamingSelectors(article))]).link
         IN [found |-> TRUE, owner |-> RepoPath(l.href)[1],
             name |-> RepoPath(l.href)[2], href |-> l.href]

\* _extract_description: the first paragraph of more than 10 characters
_extract_description(article) ==
    LET long == {i \in DOMAIN article.paras : article.paras[i].chars > 10}
    IN IF long = {} THEN "" ELSE article.paras[Least(long)].text

\* _extract_language: the text of the programmingLanguage span
_extract_language(article) == article.language

\* _extract_contributors: at most 5 avatar addresses
_extract_contributors(article) ==
    SubSeq(article.avatars, 1, Min(5, Len(article.avatars)))

CountOf(t) == IF t.has THEN _parse_number(t.text)
              ELSE NumberReturned(0)

\* _extract_stats: the counts of the stargazers and forks links and of the
\* "stars today" text; a ValueError of _parse_number leaves the method
_extract_stats(article) ==
    [raised |-> CountOf(article.stars).raised
                   \/ CountOf(article.forks).raised
                   \/ CountOf(article.today).raised,
     stars |-> CountOf(article.stars).value,
     forks |-> CountOf(article.forks).value,
     today_stars |-> CountOf(article.today).value]

NoRepository == [none |-> TRUE]

\* _parse_repo_article: None without a name, else the Repository, or the
\* exception of a field
_parse_repo_article(article) ==
    LET id == _extract_repo_name(article)
        stats == _extract_stats(article)
    IN IF ~id.found THEN [raised |-> FALSE, repo |-> NoRepository]
       ELSE IF stats.raised THEN [raised |-> TRUE, repo |-> NoRepository]
       ELSE [raised |-> FALSE,
             repo |-> [owner |-> id.owner, name |-> id.name,
                       repo_name |-> id.owner \o <<"/">> \o id.name,
                       description |-> _extract_description(article),
                       language |-> _extract_language(article),
                       stars |-> stats.stars, forks |-> stats.forks,
                       today_stars |-> stats.today_stars,
                       contributors |-> _extract_contributors(article),
                       url |-> id.href]]

\* parse with the loop body outside any try
parse_NoTry(page) ==
    LET articles == _find_repo_articles(page)
        outcomes == [i \in DOMAIN articles |->
                       _parse_repo_article(articles[i])]
        kept == SelectSeq(outcomes, LAMBDA o : o.repo # NoRepository)
    IN IF \E i \in DOMAIN outcomes : outcomes[i].raised
       THEN [raised |-> TRUE, repositories |-> <<>>]
       ELSE [raised |-> FALSE,
             repositories |-> [i \in DOMAIN kept |-> kept[i].repo]]

\* parse: each article in its own try; an exception skips the article
parse(page) ==
    LET articles == _find_repo_articles(page)
        outcomes == [i \in DOMAIN articles |->
                       _parse_repo_article(articles[i])]
        kept == SelectSeq(outcomes,
                          LAMBDA o : ~o.raised /\ o.repo # NoRepository)
    IN [raised |-> FALSE,
        repositories |-> [i \in DOMAIN kept |-> kept[i].repo]]

hAB == <<"/", "a", "/", "b">>

TpLinkSets ==
    {<<Link("h2", hAB)>>,
     <<Link("h2", <<"/", "a", "/", "/", "b">>)>>,
     <<Link("h2", <<"/", "a">>), Link("h1", <<"/", "b", "/", "a">>)>>,
     <<Link("p", <<"/", "a", "/", "b", "/", "a">>)>>,
     <<Link("p", <<"b">>)>>,
     <<Link("h2", <<"/", "a", "/">>), Link("p", <<"/", "b", "/", "a">>)>>,
     <<>>}

TpEntry(sel, links, stars, paras) ==
    [sel |-> sel, links |-> links, stars |-> stars,
     forks |-> Text(<<"1", "5">>), today |-> Text(<<"1", ",", "5">>),
     paras |-> paras, language |-> "Go", avatars |-> <<>>]

TpLongPara == <<Para(5, "stats"), Para(11, "description")>>

TpEntries ==
    {TpEntry(sel, links, stars, paras) :
        sel \in {"article.Box-row", "div.Box-row", "article.repo", "section"},
        links \in TpLinkSets,
        stars \in {NoText, Text(<<"1", ",", "2", "3", "4">>),
                   Text(<<"1", ".", "2", ".", "3", "k">>)},
        paras \in {<<>>, TpLongPara}}

\* the entries that pages of several elements are built from
TpCoreEntries ==
    {TpEntry("article.Box-row", <<Link("h2", hAB)>>,
             Text(<<"1", ",", "2", "3", "4">>), TpLongPara),
     TpEntry("article.Box-row", <<Link("h2", hAB)>>,
             Text(<<"1", ".", "2", ".", "3", "k">>), TpLongPara),
     TpEntry("article.Box-row", <<Link("p", <<"b">>)>>, NoText, <<>>),
     TpEntry("div.Box-row", <<Link("h1", <<"/", "b", "/", "a">>)>>,
             NoText, <<>>),
     TpEntry("article.repo", <<Link("p", hAB)>>, NoText, TpLongPara),
     TpEntry("section", <<Link("h2", hAB)>>, NoText, <<>>)}

TpPages ==
    {<<e>> : e \in TpEntries}
       \cup UNION {[1..n -> TpCoreEntries] : n \in 0..TpMaxEntries}

TpNoOut == [raised |-> FALSE, value |-> 0, repositories |-> <<>>]

TpInit ==
    \/ \E t \in TpTexts :
          tp = [kind |-> "number", text |-> t, page |-> <<>>,
                done |-> FALSE, out |-> TpNoOut]
    \/ \E p \in TpPages :
          tp = [kind |-> "page", text |-> <<>>, page |-> p,
                done |-> FALSE, out |-> TpNoOut]

\* _parse_number is called on the text
TpParseNumber ==
    /\ tp.kind = "number" /\ ~tp.done
    /\ LET r == _parse_number(tp.text)
       IN tp' = [tp EXCEPT !.done = TRUE,
                           !.out = [TpNoOut EXCEPT !.raised = r.raised,
                                                   !.value = r.value]]
    /\ UNCHANGED <<main, cc, rl, tb, pz, cl>>

\* parse() is called on the page
TpParse ==
    /\ tp.kind = "page" /\ ~tp.done
    /\ LET r == parse(tp.page)
       IN tp' = [tp EXCEPT !.done = TRUE,
                           !.out = [TpNoOut EXCEPT
                                      !.raised = r.raised,
                                      !.repositories = r.repositories]]
    /\ UNCHANGED <<main, cc, rl, tb, pz, cl>>

ListingInit ==
    MainInit /\ TpInit /\ cc = Unused /\ rl = Unused /\ tb = Unused
       /\ pz = Unused /\ cl = Unused

ListingNext == TpParseNumber \/ TpParse

ListingSpec == ListingInit /\ [][ListingNext]_vars

\* the candidate elements of a page as the selectors order them
TpCandidates(page) ==
    IF \E i \in DOMAIN page : page[i].sel \in Range(Selectors)
    THEN LET first == Least({k \in DOMAIN Selectors :
                               \E i \in DOMAIN page :
                                  page[i].sel = Selectors[k]})
         IN SelectSeq(page, LAMBDA e : e.sel = Selectors[first])
    ELSE SelectSeq(page, LAMBDA e : e.sel = "article.repo")

TpHasIdentity(e) == _extract_repo_name(e).found
TpFieldRaises(e) ==
    \E t \in {e.stars, e.forks, e.today} :
       t.has /\ _parse_number(t.text).raised

TpIsGrouped(t) ==
    \A i \in DOMAIN SplitOn(t, ",") : AllDigits(SplitOn(t, ",")[i])
TpIsDecimalK(t) ==
    /\ Len(t) >= 2
    /\ t[Len(t)] \in {"k", "K"}
    /\ LET parts == SplitOn(SubSeq(t, 1, Len(t) - 1), ".")
       IN Len(parts) <= 2 /\ \A i \in DOMAIN parts : AllDigits(parts[i])

\* C23: _parse_number never raises; digits with thousands separators give
\* the integer they write, a decimal followed by k or K gives its value
\* times 1000 cut to an integer, and a text without any digit gives 0.
C23_ParseNumberIsExact ==
    (tp.kind = "number" /\ tp.done) =>
       LET t == Strip(tp.text)
       IN /\ ~tp.out.raised
          /\ TpIsGrouped(t) =>
                tp.out.value = IntOfDigits(SelectSeq(t, LAMBDA c : c # ","))
          /\ TpIsDecimalK(t) =>
                tp.out.value = Thousandfold(SubSeq(t, 1, Len(t) - 1))
          /\ (\A i \in DOMAIN t : t[i] \notin TpDigits) => tp.out.value = 0

\* C24: a field that fails does not cost the record: every candidate with
\* an identity is returned, with the count that could not be read at 0 and
\* the description as extracted.
C24_FieldFailureKeepsRecord ==
    (tp.kind = "page" /\ tp.done) =>
       LET named == SelectSeq(TpCandidates(tp.page), TpHasIdentity)
       IN /\ Len(tp.out.repositories) = Len(named)
          /\ \A i \in DOMAIN named :
                /\ tp.out.repositories[i].url
                      = _extract_repo_name(named[i]).href
                /\ tp.out.repositories[i].description
                      = _extract_description(named[i])
                /\ (named[i].stars.has
                      /\ _parse_number(named[i].stars.text).raised)
                      => tp.out.repositories[i].stars = 0

\* C25: every record parse() returns has an owner and a name that are both
\* non-empty.
C25_IdentityHasTwoSegments ==
    (tp.kind = "page" /\ tp.done) =>
       \A i \in DOMAIN tp.out.repositories :
          /\ tp.out.repositories[i].owner # <<>>
          /\ tp.out.repositories[i].name # <<>>

PzFirstBlock(text) ==
    LET fences == {i \in DOMAIN text : IsFence(text[i])}
    IN IF Cardinality(fences) < 2 THEN <<>>
       ELSE SubSeq(text, Least(fences) + 1,
                   Least(fences \ {Least(fences)}) - 1)

PzIsObject(text) == Len(text) = 1 /\ text[1].k = "json" /\ text[1].isobj

\* the result of the first of the three attempts, made in order, that
\* finds an object: the whole text, the first fenced block, the first
\* balanced brace-delimited substring
PzResultInOrder(text) ==
    IF PzIsObject(text) THEN ParseJson(text)
    ELSE IF PzIsObject(PzFirstBlock(text)) THEN ParseJson(PzFirstBlock(text))
    ELSE IF BracePieces(text) # {}
              /\ PzIsObject(<<text[Least(BracePieces(text))]>>)
    THEN ParseJson(<<text[Least(BracePieces(text))]>>)
    ELSE Ok(EmptyResult)

\* C27: the interpreter returns what the first successful attempt gives,
\* the attempts being the whole text, the first fenced block and the first
\* balanced brace-delimited substring; an object followed by prose with
\* braces is decoded from the object.
C27_AttemptsInOrder ==
    (pz.out # NotRun /\ pz.shape \in ObjectShapes)
       => pz.out = PzResultInOrder(pz.text)

\* C28: a wait_for_token(n) call that has consumed its n tokens ends by
\* returning the time waited, also when the tokens were there at the call
\* and no sleep was needed.
C28_WaitForTokenReturns ==
    \A t \in TbThreads :
       (tb.th[t].pc = "idle" /\ tb.th[t].outcome # "none")
          => tb.th[t].outcome = "returned"

\* C29: a set() that fails while storing, by a serialization or a write
\* error, leaves the store as it was: the entry under its fingerprint is
\* the one a get returned before the call.
C29_FailedSetKeepsStore ==
    [][(/\ last'.op = "set"
        /\ (last'.io # "ok"
              \/ ~JsonSerializable(model_dump(last'.analysis))))
         => \A r \in Repos, c \in Contents :
               CacheGet(store', r, c, now', "ok")
                 = CacheGet(store, r, c, now, "ok")]_vars


-----------------------------------------------------------------------------
(* AIClient provider selection: src/src/ai/client.py *)

\* the names _initialize_provider knows, and one it does not
ClSupported == {"claude", "openai", "deepseek", "ollama"}
ClUnsupported == {"gemini"}
ClNames == ClSupported \cup ClUnsupported

NoInstance == [class |-> "None", model_name |-> "unknown"]

ProviderClass(name) ==
    CASE name = "claude" -> "AnthropicProvider"
      [] name = "openai" -> "OpenAIProvider"
      [] name = "deepseek" -> "DeepSeekProvider"
      [] name = "ollama" -> "OllamaProvider"
      [] OTHER -> "None"

\* _create_*_provider: an instance when the configuration has the API key
\* (for ollama: when the server answers), None otherwise
_create_provider(config, name) ==
    IF name \in config.usable
    THEN [class |-> ProviderClass(name), model_name |-> name \o "_model"]
    ELSE NoInstance

_initialize_provider(c) ==
    IF c.provider_name \in ClSupported
    THEN [raised |-> "",
          client |-> [c EXCEPT !._provider =
                                 _create_provider(c.config, c.provider_name)]]
    ELSE [raised |-> "ValueError", client |-> c]

\* AIClient(provider=None): the configured default provider
AIClient(config) ==
    _initialize_provider([config |-> config,
                          provider_name |-> config.default_provider,
                          _provider |-> NoInstance]).client

\* the name is assigned first, then the provider is initialized
switch_provider(c, provider) ==
    _initialize_provider([c EXCEPT !.provider_name = provider])

get_model_name(c) == c._provider.model_name

ClConfigs ==
    [usable : SUBSET ClSupported, default_provider : ClSupported]

ClInit ==
    \E config \in ClConfigs :
       cl = [idle |-> FALSE, client |-> AIClient(config),
             op |-> "init", raised |-> "", returned |-> ""]

ClSwitchProvider ==
    \E provider \in ClNames :
       LET r == switch_provider(cl.client, provider)
       IN /\ cl' = [cl EXCEPT !.client = r.client,
                              !.op = "switch_provider",
                              !.raised = r.raised,
                              !.returned = ""]
          /\ UNCHANGED <<main, cc, rl, tb, pz, tp>>

ClGetModelName ==
    /\ cl' = [cl EXCEPT !.op = "get_model_name",
                        !.raised = "",
                        !.returned = get_model_name(cl.client)]
    /\ UNCHANGED <<main, cc, rl, tb, pz, tp>>

ClientInit ==
    MainInit /\ ClInit /\ cc = Unused /\ rl = Unused /\ tb = Unused
       /\ pz = Unused /\ tp = Unused

ClientNext == ClSwitchProvider \/ ClGetModelName

ClientSpec == ClientInit /\ [][ClientNext]_vars

\* C30: after any sequence of switch_provider calls, failed ones included,
\* provider_name names the provider instance that is installed and that
\* the next analysis uses.
C30_ProviderNameNamesInstalled ==
    (~cl.idle /\ cl.client._provider # NoInstance) =>
       cl.client._provider.class = ProviderClass(cl.client.provider_name)

====
